---- MODULE Spec2Model ----
(***************************************************************************)
(* State-machine model of the lead intake form (LeadForm.tsx) and of the   *)
(* submission service it delegates to.                                     *)
(*                                                                         *)
(* Execution model: the browser's single-threaded event loop.  A user      *)
(* event, a timer callback and the completion of a network attempt are     *)
(* tasks; a task runs to completion, promise continuations (microtasks)    *)
(* included, before the next task is dispatched.  handleSubmit awaits the  *)
(* resolver before it calls onSubmit, so one accepted submit event is two  *)
(* steps here (SubmitEvent, then ValidationDone); no task is dispatched    *)
(* between them.                                                           *)
(***************************************************************************)
EXTENDS Integers, Sequences, FiniteSets, TLC

VARIABLES
    values,        \* react-hook-form field values (_formValues)
    errors,        \* formState.errors: field -> message, "" when none
    isSubmitting,  \* useState(false), LeadForm.tsx line 20
    submitted,     \* useState(false), LeadForm.tsx line 21
    validating,    \* handleSubmit invocations awaiting the resolver
    calls,         \* onSubmit invocations awaiting submitToGoogleSheets
    result,        \* what the last finished call handed back to onSubmit
    timers,        \* pending setTimeout callbacks of the form (their delays)
    toasts         \* notifications raised since the last accepted submit event

vars == <<values, errors, isSubmitting, submitted, validating, calls, result,
          timers, toasts>>

(***************************************************************************)
(* Configuration of the submission service.                                *)
(***************************************************************************)
\* Variant: a retry loop that counts from 0 to MAX_RETRIES inclusive.
MAX_RETRIES_Inclusive == 7 + 1

MAX_RETRIES == 7
RETRY_DELAY == 2000

\* Delay of the reset timer scheduled on success.
RESET_DELAY == 3000

\* Most onSubmit invocations the model lets run at once.
MaxCalls == 2

(***************************************************************************)
(* The record type LeadFormValues.                                         *)
(***************************************************************************)
Fields == {"nome", "telefone", "instagram", "interesse", "statusLead",
           "dataLembrete", "motivoLembrete", "observacoes"}

\* Variant: the reminder's reason not marked as required.
RequiredFieldsWithoutMotivo ==
    {"nome", "telefone", "interesse", "statusLead", "dataLembrete"}

\* The fields the form renders with the `required` attribute.
RequiredFields == {"nome", "telefone", "interesse", "statusLead",
                   "dataLembrete", "motivoLembrete"}

StatusOptions == {"Novo", "Em negociação", "Qualificado", "Não qualificado"}

Undefined == [kind |-> "undefined"]
Date(d, m, y) == [kind |-> "Date", day |-> d, month |-> m, year |-> y]
Str(cs) == [kind |-> "string", chars |-> cs]

DefaultValues ==
    [nome |-> "", telefone |-> "", instagram |-> "", interesse |-> "",
     statusLead |-> "Novo", dataLembrete |-> Undefined,
     motivoLembrete |-> "", observacoes |-> ""]

NoErrors == [f \in Fields |-> ""]

(***************************************************************************)
(* date-fns format(date, "dd/MM/yy"): two-digit day, "/", two-digit month, *)
(* "/", the year's last two digits.  A string is its sequence of           *)
(* characters.                                                             *)
(***************************************************************************)
Digits == <<"0", "1", "2", "3", "4", "5", "6", "7", "8", "9">>

Pad2(n) == <<Digits[((n \div 10) % 10) + 1], Digits[(n % 10) + 1]>>

\* Variant: the pattern "MM/dd/yy".
formatMonthFirst(date) ==
    Pad2(date.month) \o <<"/">> \o Pad2(date.day) \o <<"/">> \o Pad2(date.year % 100)

format(date) ==
    Pad2(date.day) \o <<"/">> \o Pad2(date.month) \o <<"/">> \o Pad2(date.year % 100)

(***************************************************************************)
(* onSubmit, lines 65-69: the payload handed to the service.  The spread   *)
(* copies every field of data; dataLembrete and formType are written       *)
(* after it and so override what the spread copied.                        *)
(***************************************************************************)
SerializeDate(d) == IF d.kind = "Date" THEN Str(format(d)) ELSE Str(<<>>)

\* Variant: the payload without the discriminator.
FormattedDataWithoutFormType(data) ==
    [data EXCEPT !.dataLembrete = SerializeDate(data.dataLembrete)]

FormattedData(data) ==
    [f \in (DOMAIN data) \cup {"dataLembrete", "formType"} |->
        CASE f = "dataLembrete" -> SerializeDate(data.dataLembrete)
          [] f = "formType"     -> "lead"
          [] OTHER              -> data[f]]

(***************************************************************************)
(* leadFormSchema (lib/leadValidators): a required field that is empty,    *)
(* a telephone that is not in the display format "(00) 00000-0000" (told   *)
(* here by its length) and a status outside the enumeration each yield a   *)
(* message for their field.                                                *)
(***************************************************************************)
IsEmpty(v, f) ==
    IF f = "dataLembrete" THEN v[f].kind # "Date" ELSE v[f] = ""

PhoneOk(s) == Len(s) \in {14, 15}

FieldError(v, f) ==
    CASE f \in RequiredFields /\ IsEmpty(v, f)         -> "Campo obrigatorio"
      [] f = "telefone" /\ ~PhoneOk(v[f])              -> "Telefone invalido"
      [] f = "statusLead" /\ v[f] \notin StatusOptions -> "Status invalido"
      [] OTHER                                         -> ""

leadFormSchema(v) == [f \in Fields |-> FieldError(v, f)]

Passes(v) == leadFormSchema(v) = NoErrors

(***************************************************************************)
(* What the view renders from the two flags, lines 223-237.                *)
(***************************************************************************)
ButtonDisabled == isSubmitting \/ submitted

Lifecycle ==
    IF isSubmitting THEN "submitting"
    ELSE IF submitted THEN "submitted"
    ELSE "editing"

\* A promise continuation is queued: no task is dispatched before it ran.
MicrotaskQueued ==
    \/ validating # <<>>
    \/ \E i \in 1..Len(calls) : calls[i].phase = "failed"

EventLoopIdle == ~MicrotaskQueued

(***************************************************************************)
(* Inputs the user can give to each field.                                 *)
(***************************************************************************)
Inputs(f) ==
    CASE f = "nome"           -> {"", "Ana"}
      [] f = "telefone"       -> {"", "(11) 9", "(11) 91234-5678"}
      [] f = "instagram"      -> {"", "@ana"}
      [] f = "interesse"      -> {"", "Promoções"}
      [] f = "statusLead"     -> {"Novo", "Qualificado"}
      [] f = "dataLembrete"   -> {Undefined, Date(5, 3, 2025)}
      [] f = "motivoLembrete" -> {"", "Retornar"}
      [] f = "observacoes"    -> {"", "VIP"}

\* Error texts a delivery attempt can end with.
ErrorMessages == {"Failed to fetch", "Timeout"}

\* Values a rejected call can carry: Error objects, or a value that is no Error.
Thrown == {[isError |-> TRUE, message |-> "Network down"],
           [isError |-> FALSE, message |-> ""]}

(***************************************************************************)
(* Notifications.                                                          *)
(***************************************************************************)
SuccessToast ==
    [title |-> "Sucesso!", variant |-> "default",
     description |-> "Dados do lead enviados com sucesso para a planilha."]

ErrorToast(text) ==
    [title |-> "Erro", variant |-> "destructive", description |-> text]

GenericError == "Ocorreu um erro ao enviar os dados. Tente novamente."

(***************************************************************************)
(* Results handed back to onSubmit.                                        *)
(***************************************************************************)
None == [kind |-> "none"]
Resolved(ok, msg) == [kind |-> "resolved", success |-> ok, message |-> msg]
Rejected(e) == [kind |-> "rejected", isError |-> e.isError, message |-> e.message]

Succeeded(r) == r.kind = "resolved" /\ r.success
Failed(r) == r.kind = "rejected" \/ (r.kind = "resolved" /\ ~r.success)

Init ==
    /\ values = DefaultValues
    /\ errors = NoErrors
    /\ isSubmitting = FALSE
    /\ submitted = FALSE
    /\ validating = <<>>
    /\ calls = <<>>
    /\ result = None
    /\ timers = <<>>
    /\ toasts = <<>>

(***************************************************************************)
(* Field edits: handleInputChange, handleSelectChange,                     *)
(* handleTextareaChange, handleDateChange.  setValue writes the value and  *)
(* neither validates nor touches the recorded errors.                      *)
(***************************************************************************)
setValue(f, v) == [values EXCEPT ![f] = v]

Edit ==
    /\ EventLoopIdle
    /\ \E f \in Fields : \E v \in Inputs(f) :
          /\ values[f] # v
          /\ values' = setValue(f, v)
    /\ UNCHANGED <<errors, isSubmitting, submitted, validating, calls, result,
                   timers, toasts>>

(***************************************************************************)
(* A submit event on the form (a click on the submit button, or Enter in   *)
(* a field): the browser raises none while the button is disabled.         *)
(* handleSubmit copies the field values and awaits the resolver.           *)
(***************************************************************************)
\* Variants of the submit control's disabled attribute with one flag left out.
SubmitAcceptedIgnoringPending == ~submitted

SubmitAcceptedIgnoringSubmitted == ~isSubmitting

SubmitAccepted == ~ButtonDisabled

SubmitEvent ==
    /\ EventLoopIdle
    /\ SubmitAccepted
    /\ Len(validating) + Len(calls) < MaxCalls
    /\ validating' = Append(validating, [fieldValues |-> values])
    /\ toasts' = <<>>
    /\ UNCHANGED <<values, errors, isSubmitting, submitted, calls, result, timers>>

\* onSubmit up to its await (lines 60-72): the call it issues.
NewCall(data) ==
    [data |-> data, payload |-> FormattedData(data), attempt |-> 1,
     phase |-> "attempt", lastError |-> "", delay |-> 0]

onSubmitStart(data) ==
    /\ isSubmitting' = TRUE
    /\ calls' = Append(calls, NewCall(data))
    /\ result' = None
    /\ UNCHANGED <<values, submitted, timers>>

\* The resolver found no error: handleSubmit calls onSubmit with the record.
ValidationPasses ==
    /\ validating # <<>>
    /\ Passes(Head(validating).fieldValues)
    /\ validating' = Tail(validating)
    /\ errors' = NoErrors
    /\ onSubmitStart(Head(validating).fieldValues)
    /\ UNCHANGED toasts

\* The resolver found errors: they are recorded and onSubmit is not called.
ValidationFails ==
    /\ validating # <<>>
    /\ ~Passes(Head(validating).fieldValues)
    /\ validating' = Tail(validating)
    /\ errors' = leadFormSchema(Head(validating).fieldValues)
    /\ UNCHANGED <<values, isSubmitting, submitted, calls, result, timers, toasts>>

(***************************************************************************)
(* onSubmit after its await (lines 73-101), for the value r the call       *)
(* handed back: the notification, the submitted flag, the reset timer,     *)
(* and the finally block.                                                  *)
(***************************************************************************)
\* Variant: the error notifications show the generic text, not the message.
ToastForGenericText(r) ==
    IF Succeeded(r) THEN SuccessToast ELSE ErrorToast(GenericError)

ToastFor(r) ==
    IF r.kind = "resolved"
    THEN IF r.success THEN SuccessToast ELSE ErrorToast(r.message)
    ELSE ErrorToast(IF r.isError THEN r.message ELSE GenericError)

\* Variant: setSubmitted(true) outside the success branch.
SubmittedAfterAnyResult(r) == TRUE

SubmittedAfter(r) == IF Succeeded(r) THEN TRUE ELSE submitted

TimersAfter(r) == IF Succeeded(r) THEN Append(timers, RESET_DELAY) ELSE timers

\* Variant: setIsSubmitting(false) in the success branch instead of finally.
IsSubmittingAfterSuccessOnly(r) == IF Succeeded(r) THEN FALSE ELSE isSubmitting

IsSubmittingAfter(r) == FALSE

Remove(seq, i) == SubSeq(seq, 1, i - 1) \o SubSeq(seq, i + 1, Len(seq))

Return(i, r) ==
    /\ calls' = Remove(calls, i)
    /\ result' = r
    /\ toasts' = Append(toasts, ToastFor(r))
    /\ submitted' = SubmittedAfter(r)
    /\ timers' = TimersAfter(r)
    /\ isSubmitting' = IsSubmittingAfter(r)
    /\ UNCHANGED <<values, errors, validating>>

(***************************************************************************)
(* submitToGoogleSheets (services/GoogleSheetsService): one delivery       *)
(* attempt at a time; a failed attempt is followed, after RETRY_DELAY, by  *)
(* the next one until MAX_RETRIES attempts were made; the first success    *)
(* ends the call, and so does the last failure, with its error text.       *)
(***************************************************************************)
Attempting(i) == i \in 1..Len(calls) /\ calls[i].phase = "attempt"

MayRetry(c) == c.attempt < MAX_RETRIES

AttemptSucceeds ==
    /\ EventLoopIdle
    /\ \E i \in 1..Len(calls) :
          /\ Attempting(i)
          /\ Return(i, Resolved(TRUE, "Dados enviados"))

\* An attempt ends in an error; the service's handler for it runs next.
AttemptFails ==
    /\ EventLoopIdle
    /\ \E i \in 1..Len(calls) : \E msg \in ErrorMessages :
          /\ Attempting(i)
          /\ calls' = [calls EXCEPT ![i].phase = "failed", ![i].lastError = msg]
    /\ UNCHANGED <<values, errors, isSubmitting, submitted, validating, result,
                   timers, toasts>>

\* Attempts are left: the service waits RETRY_DELAY before the next one.
RetryScheduled ==
    /\ \E i \in 1..Len(calls) :
          /\ calls[i].phase = "failed"
          /\ MayRetry(calls[i])
          /\ calls' = [calls EXCEPT ![i].phase = "delay", ![i].delay = RETRY_DELAY]
    /\ UNCHANGED <<values, errors, isSubmitting, submitted, validating, result,
                   timers, toasts>>

RetryTimerFires ==
    /\ EventLoopIdle
    /\ \E i \in 1..Len(calls) :
          /\ calls[i].phase = "delay"
          /\ calls' = [calls EXCEPT ![i].phase = "attempt",
                                    ![i].attempt = @ + 1,
                                    ![i].delay = 0]
    /\ UNCHANGED <<values, errors, isSubmitting, submitted, validating, result,
                   timers, toasts>>

\* No attempt is left: the call returns a failure with the last error's text.
FailureResult(c) == Resolved(FALSE, c.lastError)

ReturnsFailure ==
    /\ \E i \in 1..Len(calls) :
          /\ calls[i].phase = "failed"
          /\ ~MayRetry(calls[i])
          /\ Return(i, FailureResult(calls[i]))

\* The awaited call rejects instead of returning a result.
CallThrows ==
    /\ EventLoopIdle
    /\ \E i \in 1..Len(calls) : \E e \in Thrown :
          /\ Attempting(i)
          /\ Return(i, Rejected(e))

\* Variant: the timer's callback without the call of reset().
ResetTimerFiresWithoutReset ==
    /\ EventLoopIdle
    /\ timers # <<>>
    /\ timers' = Tail(timers)
    /\ submitted' = FALSE
    /\ UNCHANGED <<values, errors, isSubmitting, validating, calls, result, toasts>>

(***************************************************************************)
(* The callback of the reset timer, lines 81-84: reset() puts the default  *)
(* values back and clears the recorded errors.                             *)
(***************************************************************************)
ResetTimerFires ==
    /\ EventLoopIdle
    /\ timers # <<>>
    /\ timers' = Tail(timers)
    /\ values' = DefaultValues
    /\ errors' = NoErrors
    /\ submitted' = FALSE
    /\ UNCHANGED <<isSubmitting, validating, calls, result, toasts>>

Next ==
    \/ Edit
    \/ SubmitEvent
    \/ ValidationPasses
    \/ ValidationFails
    \/ AttemptSucceeds
    \/ AttemptFails
    \/ RetryScheduled
    \/ RetryTimerFires
    \/ ReturnsFailure
    \/ CallThrows
    \/ ResetTimerFires

Spec == Init /\ [][Next]_vars

(***************************************************************************)
(* Steps the properties below speak of.                                    *)
(***************************************************************************)
\* A call handed its outcome r back to onSubmit in this step.
ReturnedStep == result.kind = "none" /\ result'.kind # "none"

FailedStep == ReturnedStep /\ Failed(result')

SucceededStep == ReturnedStep /\ Succeeded(result')

TimerFiredStep == Len(timers') < Len(timers)

(***************************************************************************)
(* C1: at no time are two calls to submitToGoogleSheets pending, and no    *)
(* second submit is accepted between a submit event and the completion of  *)
(* the call it leads to, the wait for the resolver included.               *)
(***************************************************************************)
C1_SingleCallInFlight ==
    /\ Len(validating) + Len(calls) <= 1
    /\ calls # <<>> => isSubmitting /\ ButtonDisabled

C1_Witness ==
    /\ Len(calls) = 1
    /\ calls[1].phase = "delay"
    /\ calls[1].attempt = 3
    /\ ButtonDisabled

(***************************************************************************)
(* C2: the lifecycle read from the flags only moves editing -> submitting, *)
(* submitting -> submitted, submitting -> editing and submitted ->         *)
(* editing; submitted is entered only from submitting and only when the    *)
(* call returned success = true; it is left only by the timer.             *)
(***************************************************************************)
C2_LifecycleTransitions ==
    [][Lifecycle' # Lifecycle =>
          /\ <<Lifecycle, Lifecycle'>> \in
                {<<"editing", "submitting">>, <<"submitting", "submitted">>,
                 <<"submitting", "editing">>, <<"submitted", "editing">>}
          /\ Lifecycle' = "submitted" =>
                /\ result.kind = "none"
                /\ result'.kind = "resolved"
                /\ result'.success = TRUE
          /\ Lifecycle = "submitted" => TimerFiredStep]_vars

C2_Witness ==
    /\ Lifecycle = "submitted"
    /\ result.kind = "resolved"
    /\ timers # <<>>

(***************************************************************************)
(* C3: a call that returns success = true puts the form in the submitted   *)
(* state with a 3000 ms timer pending, and when that timer fires every     *)
(* field holds its default value and submitted is false, whatever was      *)
(* typed in between.                                                       *)
(***************************************************************************)
C3_SuccessThenReset ==
    [][/\ SucceededStep =>
            /\ Lifecycle' = "submitted"
            /\ timers' = Append(timers, 3000)
       /\ submitted => timers # <<>>
       /\ TimerFiredStep =>
            /\ values' = [nome |-> "", telefone |-> "", instagram |-> "",
                          interesse |-> "", statusLead |-> "Novo",
                          dataLembrete |-> [kind |-> "undefined"],
                          motivoLembrete |-> "", observacoes |-> ""]
            /\ submitted' = FALSE]_vars

\* The user emptied a required field after the success, before the timer.
C3_Witness ==
    /\ submitted
    /\ timers # <<>>
    /\ values.nome = ""
    /\ values.observacoes = "VIP"

(***************************************************************************)
(* C4: a submission that fails, by a failure result or by an exception,    *)
(* leaves the form editable: isSubmitting and submitted false, the submit  *)
(* control enabled, no timer scheduled, the field values unchanged.        *)
(***************************************************************************)
C4_FailureReturnsToEditing ==
    [][FailedStep =>
          /\ isSubmitting' = FALSE
          /\ submitted' = FALSE
          /\ ~ButtonDisabled'
          /\ Lifecycle' = "editing"
          /\ timers' = timers
          /\ timers' = <<>>
          /\ values' = values]_vars

C4_Witness ==
    /\ result.kind = "rejected"
    /\ ~ButtonDisabled
    /\ values.nome = "Ana"
    /\ toasts # <<>>

(***************************************************************************)
(* C5: a failed submission shows exactly one notification, an error one,   *)
(* whose text is the message of the failure result or of the thrown        *)
(* Error; no success notification is shown.                                *)
(***************************************************************************)
C5_OneErrorToast ==
    [][FailedStep /\ (result'.kind = "rejected" => result'.isError) =>
          /\ toasts = <<>>
          /\ toasts' = <<[title |-> "Erro", variant |-> "destructive",
                          description |-> result'.message]>>]_vars

C5_Witness ==
    /\ result = Resolved(FALSE, "Timeout")
    /\ Len(toasts) = 1
    /\ toasts[1].description = "Timeout"
    /\ toasts[1].variant = "destructive"

(***************************************************************************)
(* The service's steps, and the specification under which they are taken:  *)
(* the browser fires every timer and every delivery attempt ends (with a   *)
(* response, an error or a timeout).                                       *)
(***************************************************************************)
ServiceStep ==
    \/ AttemptSucceeds
    \/ AttemptFails
    \/ RetryScheduled
    \/ RetryTimerFires
    \/ ReturnsFailure
    \/ CallThrows

LiveSpec == Spec /\ WF_vars(ServiceStep)

(***************************************************************************)
(* C6: a call makes at most 7 attempts, one at a time; a failed attempt    *)
(* is followed by a wait of 2000 ms and only then by the next attempt;     *)
(* the call ends at the first success; after the 7th failure it returns a  *)
(* failure result with that attempt's error text; every call ends.         *)
(***************************************************************************)
C6_BoundedRetries ==
    /\ [][/\ \A i \in 1..Len(calls) :
                /\ calls[i].attempt \in 1..7
                /\ calls[i].phase = "delay" =>
                      calls[i].delay = 2000 /\ calls[i].attempt < 7
          /\ Len(calls') = Len(calls) =>
                \A i \in 1..Len(calls) :
                   /\ calls'[i].attempt # calls[i].attempt =>
                         /\ calls[i].phase = "delay"
                         /\ calls'[i].phase = "attempt"
                         /\ calls'[i].attempt = calls[i].attempt + 1
                   /\ calls[i].phase # "attempt" /\ calls'[i].phase = "attempt" =>
                         calls[i].phase = "delay"
                   /\ calls[i].phase = "failed" /\ calls'[i] # calls[i] =>
                         /\ calls'[i].phase = "delay"
                         /\ calls'[i].lastError = calls[i].lastError
          /\ ReturnedStep =>
                /\ Len(calls) = 1
                /\ calls' = <<>>
                /\ Succeeded(result') => calls[1].phase = "attempt"
                /\ result'.kind = "resolved" /\ ~result'.success =>
                      /\ calls[1].phase = "failed"
                      /\ calls[1].attempt = 7
                      /\ result'.message = calls[1].lastError]_vars
    /\ (calls # <<>>) ~> (calls = <<>>)

C6_Witness ==
    /\ result.kind = "resolved"
    /\ result.success = FALSE
    /\ result.message = "Failed to fetch"
    /\ calls = <<>>

(***************************************************************************)
(* C7: with a required field (nome, telefone, interesse, statusLead,       *)
(* dataLembrete, motivoLembrete) empty, a submit event calls no service,   *)
(* does not set isSubmitting and records an error for each empty required  *)
(* field; onSubmit only runs with a record that passed the schema.         *)
(***************************************************************************)
C7_Blank(v, f) ==
    IF f = "dataLembrete" THEN v[f] = [kind |-> "undefined"] ELSE v[f] = ""

C7_Required ==
    {"nome", "telefone", "interesse", "statusLead", "dataLembrete",
     "motivoLembrete"}

C7_EmptyRequiredBlocksSubmit ==
    [][/\ \A i \in 1..Len(calls) :
             /\ \A f \in C7_Required : ~C7_Blank(calls[i].data, f)
             /\ leadFormSchema(calls[i].data) = [f \in Fields |-> ""]
       /\ (/\ validating # <<>>
           /\ \E f \in C7_Required : C7_Blank(validating[1].fieldValues, f)) =>
             /\ calls' = calls
             /\ isSubmitting' = isSubmitting
             /\ isSubmitting' = FALSE
             /\ validating' = <<>>
             /\ \A f \in C7_Required :
                   C7_Blank(validating[1].fieldValues, f) => errors'[f] # ""]_vars

C7_Witness ==
    /\ errors.motivoLembrete # ""
    /\ errors.dataLembrete # ""
    /\ errors.nome = ""
    /\ values.nome = "Ana"
    /\ calls = <<>>
    /\ validating = <<>>
    /\ ~isSubmitting

(***************************************************************************)
(* C9: the payload of a submit attempt is a snapshot of the record          *)
(* onSubmit started with: the same fields, dataLembrete serialized,        *)
(* formType = "lead" added.  Edits made while the call is in flight        *)
(* change neither the payload nor the record, and building the payload     *)
(* does not change the field values.                                       *)
(***************************************************************************)
C9_PayloadIsSnapshot ==
    [][/\ \A i \in 1..Len(calls) :
             /\ DOMAIN calls[i].payload = DOMAIN calls[i].data \cup {"formType"}
             /\ calls[i].payload.formType = "lead"
             /\ \A f \in DOMAIN calls[i].data \ {"dataLembrete", "formType"} :
                   calls[i].payload[f] = calls[i].data[f]
       /\ Len(calls') > Len(calls) =>
             /\ calls'[Len(calls')].data = values
             /\ values' = values
       /\ Len(calls') = Len(calls) =>
             \A i \in 1..Len(calls) :
                /\ calls'[i].payload = calls[i].payload
                /\ calls'[i].data = calls[i].data]_vars

C9_Witness ==
    /\ Len(calls) = 1
    /\ calls[1].data.observacoes = "VIP"
    /\ calls[1].payload.observacoes = "VIP"
    /\ values.observacoes = ""
    /\ values.nome = ""

(***************************************************************************)
(* C10: at most one reset timer is pending, and one is pending only while  *)
(* submitted is true and no submission is in flight, so its reset never    *)
(* fires in the editing state or during a later submission.                *)
(***************************************************************************)
C10_SingleResetTimer ==
    /\ Len(timers) <= 1
    /\ timers # <<>> =>
          /\ submitted
          /\ ~isSubmitting
          /\ calls = <<>>
          /\ validating = <<>>

C10_Witness ==
    /\ Len(timers) = 1
    /\ submitted
    /\ values.motivoLembrete = ""
    /\ values.instagram = "@ana"

(***************************************************************************)
(* onSubmit as a function of its argument: a specification that calls it   *)
(* with any record of the type LeadFormValues, with or without a reminder  *)
(* date, whatever the schema lets through.                                 *)
(***************************************************************************)
Days == {1, 9, 10, 31}
Months == {1, 9, 10, 12}
Years == {1999, 2000, 2025, 2109}

AnyDate ==
    {Undefined} \cup {Date(d, m, y) : d \in Days, m \in Months, y \in Years}

AnyRecord ==
    {[DefaultValues EXCEPT !.nome = n, !.dataLembrete = dt] :
        n \in Inputs("nome"), dt \in AnyDate}

InitOnSubmit ==
    /\ values \in AnyRecord
    /\ errors = NoErrors
    /\ isSubmitting = FALSE
    /\ submitted = FALSE
    /\ validating = <<>>
    /\ calls = <<>>
    /\ result = None
    /\ timers = <<>>
    /\ toasts = <<>>

InvokeOnSubmit ==
    /\ EventLoopIdle
    /\ ~ButtonDisabled
    /\ Len(calls) < MaxCalls
    /\ onSubmitStart(values)
    /\ toasts' = <<>>
    /\ UNCHANGED <<errors, validating>>

NextOnSubmit ==
    \/ InvokeOnSubmit
    \/ AttemptSucceeds
    \/ AttemptFails
    \/ RetryScheduled
    \/ RetryTimerFires
    \/ ReturnsFailure
    \/ CallThrows
    \/ ResetTimerFires

SpecOnSubmit == InitOnSubmit /\ [][NextOnSubmit]_vars

(***************************************************************************)
(* C8: in every payload handed to the service dataLembrete is a string:    *)
(* the reminder date as two-digit day, "/", two-digit month, "/",          *)
(* two-digit year when the record has a date, the empty string when it     *)
(* has none; never a Date.                                                 *)
(***************************************************************************)
C8_IsDigit(c) == \E n \in 0..9 : ToString(n) = c

C8_Digit(c) == CHOOSE n \in 0..9 : ToString(n) = c

C8_Num(a, b) == 10 * C8_Digit(a) + C8_Digit(b)

C8_DateSerialized ==
    \A i \in 1..Len(calls) :
       LET d == calls[i].data.dataLembrete
           p == calls[i].payload.dataLembrete
       IN  /\ p.kind = "string"
           /\ IF d.kind = "Date"
              THEN /\ Len(p.chars) = 8
                   /\ p.chars[3] = "/"
                   /\ p.chars[6] = "/"
                   /\ \A k \in {1, 2, 4, 5, 7, 8} : C8_IsDigit(p.chars[k])
                   /\ C8_Num(p.chars[1], p.chars[2]) = d.day
                   /\ C8_Num(p.chars[4], p.chars[5]) = d.month
                   /\ C8_Num(p.chars[7], p.chars[8]) = d.year % 100
              ELSE p.chars = <<>>

C8_Witness ==
    /\ Len(calls) = 1
    /\ calls[1].data.dataLembrete = Date(9, 10, 2109)
    /\ calls[1].payload.dataLembrete.chars =
          <<"0", "9", "/", "1", "0", "/", "0", "9">>

\* The other branch: a record without a date is reached and serialized to "".
C8_NoDateReached ==
    /\ Len(calls) = 1
    /\ calls[1].data.dataLembrete = Undefined
    /\ calls[1].payload.dataLembrete.chars = <<>>

====
